---- MODULE Spec2Model ----
(***************************************************************************)
(* Model of pkgcore's staged operations:                                   *)
(*   - pkgcore/operations/format.py: build / install / uninstall /         *)
(*     replace / fetch stage graphs and the _raw_fetch stage body;         *)
(*   - pkgcore/operations/repo.py: repository install / uninstall /        *)
(*     replace stage graphs, the write lock, and the operations registry;  *)
(*   - pkgcore/interfaces/observer.py: wrap_build_method.                  *)
(* The dependency engine (ForcedDepends) is imported from snakeoil and is  *)
(* modelled from the specification's section 4.1.                          *)
(***************************************************************************)
EXTENDS Integers, Sequences, FiniteSets, TLC

VARIABLES
    kind,         \* which operation class the instance is
    observer,     \* self.observer: "none" or "obs"
    hasLock,      \* repo.lock is not None
    fetchables,   \* self.fetchables
    completed,    \* the instance's completed-stages set
    pc,           \* "idle" (no run call in progress) or "running"
    queue,        \* the rest of the resolved prerequisite chain of the call
    r,            \* the engine's last stage result in the current call
    calls,        \* number of run calls made so far
    call,         \* the current (or last) run call: requested stage, result
    trace,        \* the stage bodies the current (or last) call executed
    events,       \* the notifications the observer got during that call
    execCount,    \* per stage: how often its body ran on this instance
    underway,     \* self.underway
    lockHeld,     \* state of the repository's write lock
    lockLog,      \* calls made on self.lock
    new_pkg,      \* self.new_pkg
    notified,     \* calls received by the repository
    files,        \* self.files: path -> fetchable
    obtained,     \* filenames self.fetcher ever returned a path for
    lastFetch,    \* the last invocation of the fetch stage
    repo,         \* registry: the repository's frozen flag and syncer
    reg           \* registry: the operations object

engineVars == <<kind, observer, hasLock, fetchables, completed, pc, queue, r,
                calls, call, trace, events, execCount, underway, lockHeld, lockLog,
                new_pkg, notified, files, obtained, lastFetch>>
regVars == <<repo, reg>>
vars == <<kind, observer, hasLock, fetchables, completed, pc, queue, r,
          calls, call, trace, events, execCount, underway, lockHeld, lockLog,
          new_pkg, notified, files, obtained, lastFetch, repo, reg>>

(***************************************************************************)
(* Bounds                                                                  *)
(***************************************************************************)
MaxCalls == 2        \* run calls made on one instance
MaxFetchables == 1   \* fetchables of the package, all operations
MaxFetchSeq == 2     \* fetchables of the package, fetch-only operation
MaxMutations == 1    \* calls of _update_pkg_contents on one instance
MaxOverrides == 2    \* names in each override set of the registry

None == "None"
Range(s) == {s[i] : i \in DOMAIN s}

(***************************************************************************)
(* Stage graphs: stage -> tuple of prerequisites                           *)
(***************************************************************************)
build_stage_depends_swapped ==
    ("setup" :> <<"start">>) @@
    ("unpack" :> <<"setup", "fetch">>) @@
    ("configure" :> <<"prepare">>) @@
    ("prepare" :> <<"unpack">>) @@
    ("compile" :> <<"configure">>) @@
    ("test" :> <<"compile">>) @@
    ("install" :> <<"test">>) @@
    ("finalize" :> <<"install">>)

build_stage_depends ==
    ("setup" :> <<"start">>) @@
    ("unpack" :> <<"fetch", "setup">>) @@
    ("configure" :> <<"prepare">>) @@
    ("prepare" :> <<"unpack">>) @@
    ("compile" :> <<"configure">>) @@
    ("test" :> <<"compile">>) @@
    ("install" :> <<"test">>) @@
    ("finalize" :> <<"install">>)

install_stage_depends_no_root ==
    ("postinst" :> <<"preinst">>) @@
    ("finalize" :> <<"postinst">>)

install_stage_depends ==
    ("preinst" :> <<"start">>) @@
    ("postinst" :> <<"preinst">>) @@
    ("finalize" :> <<"postinst">>)

uninstall_stage_depends ==
    ("prerm" :> <<"start">>) @@
    ("postrm" :> <<"prerm">>) @@
    ("finalize" :> <<"postrm">>)

replace_stage_depends_rm_first ==
    ("finalize" :> <<"postinst">>) @@
    ("postinst" :> <<"preinst">>) @@
    ("preinst" :> <<"postrm">>) @@
    ("postrm" :> <<"prerm">>) @@
    ("prerm" :> <<"start">>)

replace_stage_depends ==
    ("finalize" :> <<"postinst">>) @@
    ("postinst" :> <<"postrm">>) @@
    ("postrm" :> <<"prerm">>) @@
    ("prerm" :> <<"preinst">>) @@
    ("preinst" :> <<"start">>)

fetch_stage_depends ==
    ("finalize" :> <<"fetch">>)

repo_install_stage_depends ==
    ("finish" :> <<"_notify_repo_add">>) @@
    ("_notify_repo_add" :> <<"finalize_data">>) @@
    ("finalize_data" :> <<"add_data">>) @@
    ("add_data" :> <<"start">>)

repo_uninstall_stage_depends_notify_first ==
    ("finish" :> <<"finalize_data">>) @@
    ("finalize_data" :> <<"_notify_repo_remove">>) @@
    ("_notify_repo_remove" :> <<"remove_data">>) @@
    ("remove_data" :> <<"start">>)

repo_uninstall_stage_depends ==
    ("finish" :> <<"_notify_repo_remove">>) @@
    ("_notify_repo_remove" :> <<"finalize_data">>) @@
    ("finalize_data" :> <<"remove_data">>) @@
    ("remove_data" :> <<"start">>)

repo_replace_stage_depends_notify_late ==
    ("finish" :> <<"_notify_repo_add", "_notify_repo_remove">>) @@
    ("_notify_repo_add" :> <<"finalize_data">>) @@
    ("_notify_repo_remove" :> <<"finalize_data">>) @@
    ("finalize_data" :> <<"add_data", "remove_data">>) @@
    ("remove_data" :> <<"start">>) @@
    ("add_data" :> <<"start">>)

repo_replace_stage_depends ==
    ("finish" :> <<"_notify_repo_add">>) @@
    ("_notify_repo_add" :> <<"finalize_data">>) @@
    ("finalize_data" :> <<"add_data", "_notify_repo_remove">>) @@
    ("_notify_repo_remove" :> <<"remove_data">>) @@
    ("remove_data" :> <<"start">>) @@
    ("add_data" :> <<"start">>)

FormatKinds == {"build", "install", "uninstall", "replace", "fetch"}
RepoKinds == {"repo_install", "repo_uninstall", "repo_replace"}
Kinds == FormatKinds \cup RepoKinds

stage_depends(k) ==
    CASE k = "build" -> build_stage_depends
      [] k = "install" -> install_stage_depends
      [] k = "uninstall" -> uninstall_stage_depends
      [] k = "replace" -> replace_stage_depends
      [] k = "fetch" -> fetch_stage_depends
      [] k = "repo_install" -> repo_install_stage_depends
      [] k = "repo_uninstall" -> repo_uninstall_stage_depends
      [] k = "repo_replace" -> repo_replace_stage_depends

\* every stage the graph names, as a key or as a prerequisite
Stages(k) ==
    LET d == stage_depends(k)
    IN (DOMAIN d) \cup UNION {Range(d[s]) : s \in DOMAIN d}

\* the stage a caller normally requests
Terminal(k) == IF k \in RepoKinds THEN "finish" ELSE "finalize"

(***************************************************************************)
(* Stage Graph Engine: resolution of a stage's prerequisite chain          *)
(***************************************************************************)
RECURSIVE YieldDeps(_, _), YieldDepsOf(_, _, _)
YieldDeps(d, k) ==
    IF k \notin DOMAIN d THEN <<k>>
    ELSE YieldDepsOf(d, d[k], 1) \o <<k>>

YieldDepsOf(d, ps, i) ==
    IF i > Len(ps) THEN <<>>
    ELSE YieldDeps(d, ps[i]) \o YieldDepsOf(d, ps, i + 1)

Truthy(v) == v \notin {"False", "raise"}

(***************************************************************************)
(* Observer Hook                                                           *)
(***************************************************************************)
\* the end notification delivered ahead of the start notification
wrap_build_method_end_first(obs, phase, ret) ==
    IF obs = "none" THEN <<>>
    ELSE << [type |-> "phase_end", phase |-> phase,
             status |-> IF ret = "raise" THEN "False" ELSE ret],
            [type |-> "phase_start", phase |-> phase, status |-> None] >>

\* ret not preset to False: a raising stage ends with status None
wrap_build_method_ret_unset(obs, phase, ret) ==
    IF obs = "none" THEN <<>>
    ELSE << [type |-> "phase_start", phase |-> phase, status |-> None],
            [type |-> "phase_end", phase |-> phase,
             status |-> IF ret = "raise" THEN None ELSE ret] >>

\* without the finally: a raising stage gets no phase_end
wrap_build_method_no_finally(obs, phase, ret) ==
    IF obs = "none" THEN <<>>
    ELSE IF ret = "raise"
    THEN << [type |-> "phase_start", phase |-> phase, status |-> None] >>
    ELSE << [type |-> "phase_start", phase |-> phase, status |-> None],
            [type |-> "phase_end", phase |-> phase, status |-> ret] >>

\* the notifications one wrapped stage invocation adds, given its outcome
wrap_build_method(obs, phase, ret) ==
    IF obs = "none" THEN <<>>
    ELSE << [type |-> "phase_start", phase |-> phase, status |-> None],
            [type |-> "phase_end", phase |-> phase,
             status |-> IF ret = "raise" THEN "False" ELSE ret] >>

(***************************************************************************)
(* Packages and fetchables                                                 *)
(***************************************************************************)
Contents == {"c1", "c2"}
Filenames == {"a", "b"}
Paths == {"p1", "p2"}

Fetchable == [filename : Filenames, uri : BOOLEAN]

RECURSIVE SeqsUpTo(_, _)
SeqsUpTo(S, n) ==
    IF n = 0 THEN {<<>>}
    ELSE LET shorter == SeqsUpTo(S, n - 1)
         IN shorter \cup {Append(q, x) : q \in shorter, x \in S}

OrigNewPkg == [base |-> "newpkg", contents |-> <<>>]
OldPkg == [base |-> "oldpkg", contents |-> <<>>]
MutatedPkg(pkg, contents) ==
    [base |-> pkg.base, contents |-> Append(pkg.contents, contents)]

(***************************************************************************)
(* format.py: the fetch stage body                                         *)
(***************************************************************************)
\* the no-fetch hook called whether or not the fetchable has a uri
RECURSIVE raw_fetch_loop_always_nofetch(_, _, _, _, _, _)
raw_fetch_loop_always_nofetch(fs, res, i, fl, gotten, log) ==
    IF i > Len(fs)
    THEN [ret |-> "True", files |-> fl, log |-> log, reached |-> Len(fs),
          nofetch |-> 0]
    ELSE LET x == fs[i] IN
         IF x.filename \in gotten
         THEN raw_fetch_loop_always_nofetch(fs, res, i + 1, fl, gotten, log)
         ELSE LET fp == res[i]
                  log2 == Append(log, [idx |-> i, fp |-> fp])
              IN IF fp = None
                 THEN [ret |-> "False", files |-> fl, log |-> log2,
                       reached |-> i, nofetch |-> 1]
                 ELSE raw_fetch_loop_always_nofetch(fs, res, i + 1,
                          [p \in (DOMAIN fl) \cup {fp} |->
                              IF p = fp THEN x ELSE fl[p]],
                          gotten \cup {x.filename}, log2)

\* the loop of _raw_fetch from fetchable i on; res[i] is what self.fetcher
\* returns for fetchable i if it is called
RECURSIVE raw_fetch_loop(_, _, _, _, _, _)
raw_fetch_loop(fs, res, i, fl, gotten, log) ==
    IF i > Len(fs)
    THEN [ret |-> "True", files |-> fl, log |-> log, reached |-> Len(fs),
          nofetch |-> 0]
    ELSE LET x == fs[i] IN
         IF x.filename \in gotten
         THEN raw_fetch_loop(fs, res, i + 1, fl, gotten, log)
         ELSE LET fp == res[i]
                  log2 == Append(log, [idx |-> i, fp |-> fp])
              IN IF fp = None
                 THEN [ret |-> "False", files |-> fl, log |-> log2,
                       reached |-> i,
                       nofetch |-> IF x.uri THEN 0 ELSE 1]
                 ELSE raw_fetch_loop(fs, res, i + 1,
                          [p \in (DOMAIN fl) \cup {fp} |->
                              IF p = fp THEN x ELSE fl[p]],
                          gotten \cup {x.filename}, log2)

\* the fetch record ignored when the loop starts
_raw_fetch_forgetful(fs, res, fl) ==
    raw_fetch_loop(fs, res, 1, fl, {}, <<>>)

_raw_fetch(fs, res, fl) ==
    raw_fetch_loop(fs, res, 1, fl, {fl[p].filename : p \in DOMAIN fl}, <<>>)

(***************************************************************************)
(* repo.py: bodies of the repository stages, as the new values they set    *)
(***************************************************************************)
\* start that never takes the lock
base_start_no_acquire(held, log) ==
    [underway |-> TRUE, lockHeld |-> held, lockLog |-> log, ret |-> "True"]

\* start that leaves the underway flag alone
base_start_not_underway(held, log) ==
    [underway |-> FALSE,
     lockHeld |-> IF hasLock THEN TRUE ELSE held,
     lockLog |-> Append(log, "acquire_write_lock"),
     ret |-> "True"]

\* start without its return statement: the body returns None
base_start_returns_none(held, log) ==
    [underway |-> TRUE,
     lockHeld |-> IF hasLock THEN TRUE ELSE held,
     lockLog |-> Append(log, "acquire_write_lock"),
     ret |-> "False"]

\* every repository treated as one without a lock
base_start_fake_lock(held, log) ==
    [underway |-> TRUE, lockHeld |-> held,
     lockLog |-> Append(log, "acquire_write_lock"), ret |-> "True"]

\* base.start: [underway, lockHeld, lockLog, ret]
base_start(held, log) ==
    [underway |-> TRUE,
     lockHeld |-> IF hasLock THEN TRUE ELSE held,
     lockLog |-> Append(log, "acquire_write_lock"),
     ret |-> "True"]

\* base.finish
base_finish(held, log) ==
    [underway |-> FALSE,
     lockHeld |-> IF hasLock THEN FALSE ELSE held,
     lockLog |-> Append(log, "release_write_lock"),
     ret |-> "True"]

\* the package given to the constructor passed on
_notify_repo_add_orig(newp) ==
    [what |-> "notify_add_package", pkg |-> OrigNewPkg]

\* install._notify_repo_add: the call the repository receives
_notify_repo_add(newp) == [what |-> "notify_add_package", pkg |-> newp]

\* uninstall._notify_repo_remove
_notify_repo_remove(oldp) == [what |-> "notify_remove_package", pkg |-> oldp]

\* install._update_pkg_contents
_update_pkg_contents(newp, contents) == MutatedPkg(newp, contents)

(***************************************************************************)
(* Initial state: a freshly constructed operation instance                 *)
(***************************************************************************)
NoCall == [target |-> None, result |-> None]
NoFetch == [n |-> 0, pre |-> {}, got |-> {}, log |-> <<>>, reached |-> 0,
            ret |-> None, nofetch |-> 0]
NoRepo == [frozen |-> FALSE, syncer |-> "none"]
NoReg == [state |-> "none"]

\* an instance of one of the classes `kinds`, its package having at most
\* `maxf` fetchables
InitInstance(kinds, maxf) ==
    /\ kind \in kinds
    /\ observer \in {"none", "obs"}
    /\ hasLock \in (IF kind \in RepoKinds THEN BOOLEAN ELSE {FALSE})
    /\ fetchables \in (IF kind \in {"build", "fetch"}
                       THEN SeqsUpTo(Fetchable, maxf) ELSE {<<>>})
    /\ completed = {}
    /\ pc = "idle"
    /\ queue = <<>>
    /\ r = "True"
    /\ calls = 0
    /\ call = NoCall
    /\ trace = <<>>
    /\ events = <<>>
    /\ execCount = [st \in Stages(kind) |-> 0]
    /\ underway = FALSE
    /\ lockHeld = FALSE
    /\ lockLog = <<>>
    /\ new_pkg = OrigNewPkg
    /\ notified = <<>>
    /\ files = [p \in {} |-> None]
    /\ obtained = {}
    /\ lastFetch = NoFetch
    /\ repo = NoRepo
    /\ reg = NoReg

Init == InitInstance(Kinds, MaxFetchables)

\* the fetch-only operation
FetchInit == InitInstance({"fetch"}, MaxFetchSeq)

(***************************************************************************)
(* Stage Graph Engine: run(stage)                                          *)
(***************************************************************************)
\* the caller invokes a stage: the chain is resolved
Run ==
    /\ pc = "idle"
    /\ calls < MaxCalls
    /\ \E st \in Stages(kind) :
          /\ queue' = YieldDeps(stage_depends(kind), st)
          /\ call' = [target |-> st, result |-> "pending"]
    /\ pc' = "running"
    /\ r' = "True"
    /\ calls' = calls + 1
    /\ trace' = <<>>
    /\ events' = <<>>
    /\ UNCHANGED <<kind, observer, hasLock, fetchables, completed,
                   execCount, underway, lockHeld, lockLog, new_pkg, notified,
                   files, obtained, lastFetch, repo, reg>>

SetResult(v) == [call EXCEPT !.result = v]

\* a stage of the chain that is already in the completed set is skipped
SkipCompleted ==
    /\ pc = "running"
    /\ queue # <<>>
    /\ Head(queue) \in completed
    /\ queue' = Tail(queue)
    /\ UNCHANGED <<kind, observer, hasLock, fetchables, completed, pc, r,
                   calls, call, trace, events, execCount, underway, lockHeld, lockLog,
                   new_pkg, notified, files, obtained, lastFetch, repo,
                   reg>>

\* the chain is exhausted: the call returns the last result
Return ==
    /\ pc = "running"
    /\ queue = <<>>
    /\ pc' = "idle"
    /\ call' = SetResult(r)
    /\ UNCHANGED <<kind, observer, hasLock, fetchables, completed, queue, r,
                   calls, trace, events, execCount, underway, lockHeld, lockLog, new_pkg,
                   notified, files, obtained, lastFetch, repo, reg>>

\* an engine that forgets the completed stages when a stage fails
ensure_deps_rollback(dep, ret) ==
    /\ trace' = Append(trace, [stage |-> dep, ret |-> ret,
                               held |-> lockHeld])
    /\ execCount' = [execCount EXCEPT ![dep] = @ + 1]
    /\ events' = events \o wrap_build_method(observer, dep, ret)
    /\ IF Truthy(ret)
       THEN /\ completed' = completed \cup {dep}
            /\ queue' = Tail(queue)
            /\ r' = ret
            /\ UNCHANGED <<pc, call>>
       ELSE /\ pc' = "idle"
            /\ queue' = <<>>
            /\ r' = ret
            /\ call' = SetResult(IF ret = "raise" THEN "raised" ELSE ret)
            /\ completed' = {}
    /\ UNCHANGED <<kind, observer, hasLock, fetchables, calls, repo, reg>>

\* an engine that goes on after a falsy result
ensure_deps_no_abort(dep, ret) ==
    /\ trace' = Append(trace, [stage |-> dep, ret |-> ret,
                               held |-> lockHeld])
    /\ execCount' = [execCount EXCEPT ![dep] = @ + 1]
    /\ events' = events \o wrap_build_method(observer, dep, ret)
    /\ IF ret # "raise"
       THEN /\ completed' = completed \cup {dep}
            /\ queue' = Tail(queue)
            /\ r' = ret
            /\ UNCHANGED <<pc, call>>
       ELSE /\ pc' = "idle"
            /\ queue' = <<>>
            /\ r' = ret
            /\ call' = SetResult("raised")
            /\ UNCHANGED completed
    /\ UNCHANGED <<kind, observer, hasLock, fetchables, calls, repo, reg>>

\* what the engine does with the outcome `ret` of the body of stage `dep`,
\* the invocation being wrapped by the observer hook
ensure_deps(dep, ret) ==
    /\ trace' = Append(trace, [stage |-> dep, ret |-> ret,
                               held |-> lockHeld])
    /\ execCount' = [execCount EXCEPT ![dep] = @ + 1]
    /\ events' = events \o wrap_build_method(observer, dep, ret)
    /\ IF Truthy(ret)
       THEN /\ completed' = completed \cup {dep}
            /\ queue' = Tail(queue)
            /\ r' = ret
            /\ UNCHANGED <<pc, call>>
       ELSE /\ pc' = "idle"
            /\ queue' = <<>>
            /\ r' = ret
            /\ call' = SetResult(IF ret = "raise" THEN "raised" ELSE ret)
            /\ UNCHANGED completed
    /\ UNCHANGED <<kind, observer, hasLock, fetchables, calls, repo, reg>>

\* an engine that runs a stage whether or not it is completed
Ready_ignores_completed(dep) ==
    /\ pc = "running"
    /\ queue # <<>>
    /\ dep = Head(queue)

Ready(dep) ==
    /\ pc = "running"
    /\ queue # <<>>
    /\ dep = Head(queue)
    /\ dep \notin completed

(***************************************************************************)
(* Stage bodies, each run by the engine as one step of a call              *)
(***************************************************************************)
StageResults == {"True", "False", "raise"}

\* format.py: a stage other than fetch; the bodies return True by default
\* and are overridden by the backends ("@return: True on success, False on
\* failure")
PlainStage ==
    \E dep \in Stages(kind) :
       /\ Ready(dep)
       /\ kind \in FormatKinds
       /\ dep # "fetch"
       /\ ~(kind = "fetch" /\ dep = "finalize")
       /\ \E ret \in StageResults : ensure_deps(dep, ret)
       /\ UNCHANGED <<underway, lockHeld, lockLog, new_pkg, notified, files,
                      obtained, lastFetch>>

\* format.py: fetch.finalize returns the package
FetchFinalize ==
    /\ Ready("finalize")
    /\ kind = "fetch"
    /\ ensure_deps("finalize", "pkg")
    /\ UNCHANGED <<underway, lockHeld, lockLog, new_pkg, notified, files,
                   obtained, lastFetch>>

\* format.py: build.fetch and fetch.fetch are _raw_fetch
FetchStage ==
    /\ Ready("fetch")
    /\ \E res \in [1..Len(fetchables) -> Paths \cup {None}] :
          LET out == _raw_fetch(fetchables, res, files) IN
          /\ files' = out.files
          /\ obtained' = obtained \cup
                 {fetchables[out.log[i].idx].filename :
                    i \in {j \in DOMAIN out.log : out.log[j].fp # None}}
          /\ lastFetch' = [n |-> lastFetch.n + 1,
                           pre |-> {files[p].filename : p \in DOMAIN files},
                           got |-> obtained,
                           log |-> out.log, reached |-> out.reached,
                           ret |-> out.ret, nofetch |-> out.nofetch]
          /\ ensure_deps("fetch", out.ret)
    /\ UNCHANGED <<underway, lockHeld, lockLog, new_pkg, notified>>

\* repo.py: base.start
RepoStart ==
    /\ Ready("start")
    /\ kind \in RepoKinds
    /\ LET out == base_start(lockHeld, lockLog) IN
          /\ underway' = out.underway
          /\ lockHeld' = out.lockHeld
          /\ lockLog' = out.lockLog
          /\ ensure_deps("start", out.ret)
    /\ UNCHANGED <<new_pkg, notified, files, obtained, lastFetch>>

\* repo.py: base.finish
RepoFinish ==
    /\ Ready("finish")
    /\ kind \in RepoKinds
    /\ LET out == base_finish(lockHeld, lockLog) IN
          /\ underway' = out.underway
          /\ lockHeld' = out.lockHeld
          /\ lockLog' = out.lockLog
          /\ ensure_deps("finish", out.ret)
    /\ UNCHANGED <<new_pkg, notified, files, obtained, lastFetch>>

\* repo.py: install._notify_repo_add; the repository's method may raise
NotifyRepoAdd ==
    /\ Ready("_notify_repo_add")
    /\ notified' = Append(notified, _notify_repo_add(new_pkg))
    /\ \E ret \in {"True", "raise"} : ensure_deps("_notify_repo_add", ret)
    /\ UNCHANGED <<underway, lockHeld, lockLog, new_pkg, files, obtained,
                   lastFetch>>

\* repo.py: uninstall._notify_repo_remove
NotifyRepoRemove ==
    /\ Ready("_notify_repo_remove")
    /\ notified' = Append(notified, _notify_repo_remove(OldPkg))
    /\ \E ret \in {"True", "raise"} : ensure_deps("_notify_repo_remove", ret)
    /\ UNCHANGED <<underway, lockHeld, lockLog, new_pkg, files, obtained,
                   lastFetch>>

\* repo.py: add_data, remove_data, finalize_data raise NotImplementedError
\* unless a backend overrides them; a backend's add_data or finalize_data
\* may call _update_pkg_contents
DataStage ==
    \E dep \in {"add_data", "remove_data", "finalize_data"} :
       /\ Ready(dep)
       /\ \/ UNCHANGED new_pkg
          \/ /\ dep \in {"add_data", "finalize_data"}
             /\ kind \in {"repo_install", "repo_replace"}
             /\ Len(new_pkg.contents) < MaxMutations
             /\ \E c \in Contents : new_pkg' = _update_pkg_contents(new_pkg, c)
       /\ \E ret \in StageResults : ensure_deps(dep, ret)
       /\ UNCHANGED <<underway, lockHeld, lockLog, notified, files,
                      obtained, lastFetch>>

Next ==
    \/ Run
    \/ SkipCompleted
    \/ Return
    \/ PlainStage
    \/ FetchFinalize
    \/ FetchStage
    \/ RepoStart
    \/ RepoFinish
    \/ NotifyRepoAdd
    \/ NotifyRepoRemove
    \/ DataStage

Spec == Init /\ [][Next]_vars

\* the three repository operations
RepoInit == InitInstance(RepoKinds, MaxFetchables)

RepoNext ==
    \/ Run
    \/ SkipCompleted
    \/ Return
    \/ RepoStart
    \/ RepoFinish
    \/ NotifyRepoAdd
    \/ NotifyRepoRemove
    \/ DataStage

RepoSpec == RepoInit /\ [][RepoNext]_vars

FetchNext ==
    \/ Run
    \/ SkipCompleted
    \/ Return
    \/ FetchFinalize
    \/ FetchStage

FetchSpec == FetchInit /\ [][FetchNext]_vars

\* the fetch-only operation for a package whose fetchables have up to
\* three different filenames
MaxRefetchSeq == 3

ManyFilenames == {"a", "b", "c"}

RefetchInit ==
    /\ kind = "fetch"
    /\ observer \in {"none", "obs"}
    /\ hasLock = FALSE
    /\ fetchables \in SeqsUpTo([filename : ManyFilenames, uri : BOOLEAN],
                               MaxRefetchSeq)
    /\ completed = {}
    /\ pc = "idle"
    /\ queue = <<>>
    /\ r = "True"
    /\ calls = 0
    /\ call = NoCall
    /\ trace = <<>>
    /\ events = <<>>
    /\ execCount = [st \in Stages(kind) |-> 0]
    /\ underway = FALSE
    /\ lockHeld = FALSE
    /\ lockLog = <<>>
    /\ new_pkg = OrigNewPkg
    /\ notified = <<>>
    /\ files = [p \in {} |-> None]
    /\ obtained = {}
    /\ lastFetch = NoFetch
    /\ repo = NoRepo
    /\ reg = NoReg

RefetchSpec == RefetchInit /\ [][FetchNext]_vars

(***************************************************************************)
(* repo.py: the operations registry                                        *)
(***************************************************************************)
\* the commands for which class operations defines _cmd_enabled_<name>
EnabledHandlers == {"install", "uninstall", "replace", "configure", "sync"}

\* the registry classes: the commands <name> a class defines _cmd_<name>
\* for; class operations itself defines only _cmd_sync
RegistryClasses ==
    { {"sync"},
      {"sync", "install", "uninstall", "replace"},
      {"sync", "install", "uninstall", "replace", "configure"} }

\* names a caller may pass: the commands, an attribute of every registry
\* that is no command, and a name that is nothing
OtherAttrs == {"repo", "supports"}
Names == EnabledHandlers \cup OtherAttrs \cup {"bogus"}

Subsets(S, n) == {T \in SUBSET S : Cardinality(T) <= n}

\* operations._collect_operations
_collect_operations(cmds) == cmds

\* the frozen flag ignored
_disabled_if_frozen_never(rp, command) == TRUE

\* operations._disabled_if_frozen
_disabled_if_frozen(rp, command) == ~rp.frozen

\* operations._cmd_check_support_sync
_cmd_check_support_sync(rp) ==
    rp.syncer # "none" /\ rp.syncer # "disabled"

\* getattr(self, '_cmd_check_support_%s' % command, None), called
check_support(rp, command) ==
    CASE command \in {"install", "uninstall", "replace"} ->
             _disabled_if_frozen(rp, command)
      [] command = "sync" -> _cmd_check_support_sync(rp)
      [] OTHER -> TRUE

\* operations._filter_disabled_commands
_filter_disabled_commands(rp, sequence) ==
    {command \in sequence : check_support(rp, command)}

\* the disable overrides taken out before the enable overrides are added
operations_init_disable_first(rp, cmds, disable_overrides, enable_overrides) ==
    ((_filter_disabled_commands(rp, _collect_operations(cmds)))
        \ disable_overrides) \cup enable_overrides

\* the enable overrides added before the support filter runs
operations_init_filter_last(rp, cmds, disable_overrides, enable_overrides) ==
    _filter_disabled_commands(rp,
        _collect_operations(cmds) \cup enable_overrides) \ disable_overrides

\* operations.__init__: the set enabled_ops it computes
operations_init(rp, cmds, disable_overrides, enable_overrides) ==
    ((_filter_disabled_commands(rp, _collect_operations(cmds)))
        \cup enable_overrides) \ disable_overrides

\* hasattr(self, name) on a constructed registry
HasAttr(rg, name) == name \in (DOMAIN rg.attrs) \cup OtherAttrs

\* operations._enable_operation, for every enabled operation: the
\* attributes set on the instance and the handlers they are bound to
_enable_operation(enabled_ops) ==
    [operation \in enabled_ops |-> <<"_cmd_enabled_", operation>>]

\* a registry that re-evaluates the support predicates on every query
supports_live(rg, operation_name, raw) ==
    LET live == operations_init(repo, rg.cmds, rg.disable_overrides,
                                rg.enable_overrides) IN
    IF operation_name = None
    THEN IF ~raw THEN live ELSE _collect_operations(rg.cmds)
    ELSE IF raw THEN operation_name \in EnabledHandlers
         ELSE operation_name \in live \cup OtherAttrs

\* operations.supports
supports(rg, operation_name, raw) ==
    IF operation_name = None
    THEN IF ~raw THEN rg.enabled_ops ELSE _collect_operations(rg.cmds)
    ELSE IF raw THEN operation_name \in EnabledHandlers
         ELSE HasAttr(rg, operation_name)

RegInit ==
    /\ repo \in [frozen : BOOLEAN, syncer : {"none", "enabled", "disabled"}]
    /\ reg \in [state : {"unbuilt"}, cmds : RegistryClasses,
                enabled_ops : {{}}, attrs : {<<>>},
                disable_overrides : {{}}, enable_overrides : {{}},
                repo : {NoRepo}]
    /\ kind = "build"
    /\ observer = "none"
    /\ hasLock = FALSE
    /\ fetchables = <<>>
    /\ completed = {}
    /\ pc = "idle"
    /\ queue = <<>>
    /\ r = "True"
    /\ calls = 0
    /\ call = NoCall
    /\ trace = <<>>
    /\ events = <<>>
    /\ execCount = [st \in Stages(kind) |-> 0]
    /\ underway = FALSE
    /\ lockHeld = FALSE
    /\ lockLog = <<>>
    /\ new_pkg = OrigNewPkg
    /\ notified = <<>>
    /\ files = [p \in {} |-> None]
    /\ obtained = {}
    /\ lastFetch = NoFetch

\* operations(repository, disable_overrides, enable_overrides): a command
\* without a _cmd_enabled_ handler makes _enable_operation raise
Construct ==
    /\ reg.state = "unbuilt"
    /\ \E dis \in Subsets(Names, MaxOverrides),
          en \in Subsets(Names, MaxOverrides) :
          LET enabled_ops == operations_init(repo, reg.cmds, dis, en) IN
          reg' = IF enabled_ops \subseteq EnabledHandlers
                 THEN [reg EXCEPT !.state = "built",
                                  !.enabled_ops = enabled_ops,
                                  !.attrs = _enable_operation(enabled_ops),
                                  !.disable_overrides = dis,
                                  !.enable_overrides = en,
                                  !.repo = repo]
                 ELSE [reg EXCEPT !.state = "error",
                                  !.disable_overrides = dis,
                                  !.enable_overrides = en,
                                  !.repo = repo]
    /\ UNCHANGED repo
    /\ UNCHANGED engineVars

\* the repository is frozen or thawed
SetFrozen ==
    /\ repo' = [repo EXCEPT !.frozen = ~@]
    /\ UNCHANGED reg
    /\ UNCHANGED engineVars

\* the repository's syncer is configured, disabled or removed
SetSyncer ==
    /\ \E sy \in {"none", "enabled", "disabled"} :
          /\ sy # repo.syncer
          /\ repo' = [repo EXCEPT !.syncer = sy]
    /\ UNCHANGED reg
    /\ UNCHANGED engineVars

RegNext ==
    \/ Construct
    \/ SetFrozen
    \/ SetSyncer

RegSpec == RegInit /\ [][RegNext]_vars

(***************************************************************************)
(* operations_proxy: the registry of a repository wrapping raw_repo        *)
(***************************************************************************)
MaxProxyOverrides == 1

\* operations_proxy._get_target_attrs: dir() of the wrapped registry, the
\* _cmd_ attributes as <<prefix, name>>; every registry class inherits the
\* handlers and support checks class operations defines
_get_target_attrs(cmds) ==
    {<<"_cmd_", c>> : c \in cmds}
       \cup {<<"_cmd_enabled_", c>> : c \in EnabledHandlers}
       \cup {<<"_cmd_check_support_", c>> :
                c \in {"install", "uninstall", "replace", "sync"}}

\* operations_proxy._collect_operations
operations_proxy_collect_operations(cmds) == _collect_operations(cmds)

\* the support checks of the proxy evaluated against its own repository
_proxy_op_support_own(rp, op_name) == check_support(rp, op_name)

\* operations_proxy._proxy_op_support: the wrapped registry's check, which
\* reads the wrapped repository
_proxy_op_support(rp, op_name) == check_support(rp.raw_repo, op_name)

\* getattr(self, '_cmd_check_support_%s' % command, None) on the proxy: the
\* instance attribute __init__ set shadows the inherited check
operations_proxy_check_support(rp, cmds, command) ==
    IF <<"_cmd_check_support_", command>> \in _get_target_attrs(cmds)
    THEN _proxy_op_support(rp, command)
    ELSE check_support(rp, command)

\* operations_proxy.__init__: the set enabled_ops it computes
operations_proxy_init(rp, cmds, disable_overrides, enable_overrides) ==
    ({command \in operations_proxy_collect_operations(cmds) :
         operations_proxy_check_support(rp, cmds, command)}
        \cup enable_overrides) \ disable_overrides

RepoStates == [frozen : BOOLEAN, syncer : {"none", "enabled", "disabled"}]

ProxyInit ==
    /\ repo \in [frozen : BOOLEAN, syncer : {"none", "enabled", "disabled"},
                 raw_repo : RepoStates]
    /\ reg \in [state : {"unbuilt"}, cmds : RegistryClasses,
                enabled_ops : {{}}, attrs : {<<>>},
                disable_overrides : {{}}, enable_overrides : {{}},
                repo : {NoRepo}]
    /\ kind = "build"
    /\ observer = "none"
    /\ hasLock = FALSE
    /\ fetchables = <<>>
    /\ completed = {}
    /\ pc = "idle"
    /\ queue = <<>>
    /\ r = "True"
    /\ calls = 0
    /\ call = NoCall
    /\ trace = <<>>
    /\ events = <<>>
    /\ execCount = [st \in Stages(kind) |-> 0]
    /\ underway = FALSE
    /\ lockHeld = FALSE
    /\ lockLog = <<>>
    /\ new_pkg = OrigNewPkg
    /\ notified = <<>>
    /\ files = [p \in {} |-> None]
    /\ obtained = {}
    /\ lastFetch = NoFetch

\* operations_proxy(repository, disable_overrides, enable_overrides)
ProxyConstruct ==
    /\ reg.state = "unbuilt"
    /\ \E dis \in Subsets(Names, MaxProxyOverrides),
          en \in Subsets(Names, MaxProxyOverrides) :
          LET enabled_ops == operations_proxy_init(repo, reg.cmds, dis, en) IN
          reg' = IF enabled_ops \subseteq EnabledHandlers
                 THEN [reg EXCEPT !.state = "built",
                                  !.enabled_ops = enabled_ops,
                                  !.attrs = _enable_operation(enabled_ops),
                                  !.disable_overrides = dis,
                                  !.enable_overrides = en,
                                  !.repo = repo]
                 ELSE [reg EXCEPT !.state = "error",
                                  !.disable_overrides = dis,
                                  !.enable_overrides = en,
                                  !.repo = repo]
    /\ UNCHANGED repo
    /\ UNCHANGED engineVars

\* the wrapped repository is frozen or thawed
SetRawFrozen ==
    /\ repo' = [repo EXCEPT !.raw_repo.frozen = ~@]
    /\ UNCHANGED reg
    /\ UNCHANGED engineVars

ProxyNext ==
    \/ ProxyConstruct
    \/ SetFrozen
    \/ SetRawFrozen

ProxySpec == ProxyInit /\ [][ProxyNext]_vars

(***************************************************************************)
(* Two repository operations bound to one repository, interleaved stage by *)
(* stage; each is driven by run('finish')                                  *)
(***************************************************************************)
MaxWriterCalls == 2

Writers == {1, 2}

\* repo.lock.acquire_write_lock() returns only when no writer holds the
\* lock; fake_lock's returns at once
CanAcquireWrite == ~(hasLock /\ lockHeld)

\* what no step of a writer touches
writerFixed == <<kind, observer, hasLock, fetchables, trace, events,
                 execCount, new_pkg, notified, files, obtained, lastFetch,
                 repo, reg>>

WriterInit ==
    /\ kind \in [Writers -> RepoKinds]
    /\ hasLock \in BOOLEAN
    /\ completed = [i \in Writers |-> {}]
    /\ pc = [i \in Writers |-> "idle"]
    /\ queue = [i \in Writers |-> <<>>]
    /\ r = [i \in Writers |-> "True"]
    /\ calls = [i \in Writers |-> 0]
    /\ call = [i \in Writers |-> NoCall]
    /\ underway = [i \in Writers |-> FALSE]
    /\ lockHeld = FALSE
    /\ lockLog = <<>>
    /\ observer = "none"
    /\ fetchables = <<>>
    /\ trace = <<>>
    /\ events = <<>>
    /\ execCount = <<>>
    /\ new_pkg = OrigNewPkg
    /\ notified = <<>>
    /\ files = [p \in {} |-> None]
    /\ obtained = {}
    /\ lastFetch = NoFetch
    /\ repo = NoRepo
    /\ reg = NoReg

WriterRun(i) ==
    /\ pc[i] = "idle"
    /\ calls[i] < MaxWriterCalls
    /\ queue' = [queue EXCEPT
                    ![i] = YieldDeps(stage_depends(kind[i]), "finish")]
    /\ call' = [call EXCEPT ![i] = [target |-> "finish",
                                    result |-> "pending"]]
    /\ pc' = [pc EXCEPT ![i] = "running"]
    /\ r' = [r EXCEPT ![i] = "True"]
    /\ calls' = [calls EXCEPT ![i] = @ + 1]
    /\ UNCHANGED <<completed, underway, lockHeld, lockLog>>
    /\ UNCHANGED writerFixed

WriterSkipCompleted(i) ==
    /\ pc[i] = "running"
    /\ queue[i] # <<>>
    /\ Head(queue[i]) \in completed[i]
    /\ queue' = [queue EXCEPT ![i] = Tail(@)]
    /\ UNCHANGED <<completed, pc, r, calls, call, underway, lockHeld,
                   lockLog>>
    /\ UNCHANGED writerFixed

WriterReturn(i) ==
    /\ pc[i] = "running"
    /\ queue[i] = <<>>
    /\ pc' = [pc EXCEPT ![i] = "idle"]
    /\ call' = [call EXCEPT ![i].result = r[i]]
    /\ UNCHANGED <<completed, queue, r, calls, underway, lockHeld, lockLog>>
    /\ UNCHANGED writerFixed

WriterReady(i, dep) ==
    /\ pc[i] = "running"
    /\ queue[i] # <<>>
    /\ dep = Head(queue[i])
    /\ dep \notin completed[i]

\* the engine's handling of the outcome of a stage body, for writer i
writer_ensure_deps(i, dep, ret) ==
    /\ r' = [r EXCEPT ![i] = ret]
    /\ IF Truthy(ret)
       THEN /\ completed' = [completed EXCEPT ![i] = @ \cup {dep}]
            /\ queue' = [queue EXCEPT ![i] = Tail(@)]
            /\ UNCHANGED <<pc, call>>
       ELSE /\ pc' = [pc EXCEPT ![i] = "idle"]
            /\ queue' = [queue EXCEPT ![i] = <<>>]
            /\ call' = [call EXCEPT
                           ![i].result = IF ret = "raise" THEN "raised"
                                         ELSE ret]
            /\ UNCHANGED completed
    /\ UNCHANGED calls

\* base.start of writer i
WriterStart(i) ==
    /\ WriterReady(i, "start")
    /\ CanAcquireWrite
    /\ LET out == base_start(lockHeld, lockLog) IN
          /\ underway' = [underway EXCEPT ![i] = out.underway]
          /\ lockHeld' = out.lockHeld
          /\ lockLog' = out.lockLog
          /\ writer_ensure_deps(i, "start", out.ret)
    /\ UNCHANGED writerFixed

\* base.finish of writer i
WriterFinish(i) ==
    /\ WriterReady(i, "finish")
    /\ LET out == base_finish(lockHeld, lockLog) IN
          /\ underway' = [underway EXCEPT ![i] = out.underway]
          /\ lockHeld' = out.lockHeld
          /\ lockLog' = out.lockLog
          /\ writer_ensure_deps(i, "finish", out.ret)
    /\ UNCHANGED writerFixed

\* add_data, remove_data, finalize_data of writer i
WriterDataStage(i) ==
    \E dep \in {"add_data", "remove_data", "finalize_data"} :
       /\ WriterReady(i, dep)
       /\ \E ret \in StageResults : writer_ensure_deps(i, dep, ret)
       /\ UNCHANGED <<underway, lockHeld, lockLog>>
       /\ UNCHANGED writerFixed

\* _notify_repo_add, _notify_repo_remove of writer i
WriterNotify(i) ==
    \E dep \in {"_notify_repo_add", "_notify_repo_remove"} :
       /\ WriterReady(i, dep)
       /\ \E ret \in {"True", "raise"} : writer_ensure_deps(i, dep, ret)
       /\ UNCHANGED <<underway, lockHeld, lockLog>>
       /\ UNCHANGED writerFixed

WriterNext ==
    \/ \E i \in Writers : WriterRun(i)
    \/ \E i \in Writers : WriterSkipCompleted(i)
    \/ \E i \in Writers : WriterReturn(i)
    \/ \E i \in Writers : WriterStart(i)
    \/ \E i \in Writers : WriterFinish(i)
    \/ \E i \in Writers : WriterDataStage(i)
    \/ \E i \in Writers : WriterNotify(i)

WriterSpec == WriterInit /\ [][WriterNext]_vars

(***************************************************************************)
(* Properties                                                              *)
(***************************************************************************)
\* the declared prerequisites of a stage, and everything it rests on
Prereqs(k, st) ==
    IF st \in DOMAIN stage_depends(k) THEN Range(stage_depends(k)[st]) ELSE {}

RECURSIVE Closure(_, _)
Closure(k, S) ==
    LET T == S \cup UNION {Prereqs(k, st) : st \in S}
    IN IF T = S THEN S ELSE Closure(k, T)

Ancestors(k, st) == Closure(k, Prereqs(k, st))
Dependents(k, st) == {t \in Stages(k) : st \in Ancestors(k, t)}

TraceStages == [i \in DOMAIN trace |-> trace[i].stage]
Positions(st) == {i \in DOMAIN trace : trace[i].stage = st}
Before(a, b) == \E i \in Positions(a) : \A j \in Positions(b) : i < j

\* the first call on a fresh instance asked for the terminal stage and has
\* returned, every stage having succeeded
TerminalRunDone ==
    /\ calls = 1
    /\ pc = "idle"
    /\ call.target = Terminal(kind)
    /\ call.result \in {"True", "pkg"}
    /\ \A i \in DOMAIN trace : Truthy(trace[i].ret)

\* C1: running the terminal stage of any declared graph on a fresh instance
\* whose stages all succeed executes every ancestor stage exactly once, each
\* stage after all of its prerequisites, and the prerequisites of build's
\* unpack (fetch, setup) and of repository replace's finalize_data (add_data,
\* _notify_repo_remove) in the declared left-to-right order.
C1_TerminalRunOrder ==
    TerminalRunDone =>
        LET all == Ancestors(kind, Terminal(kind)) \cup {Terminal(kind)} IN
        /\ \A st \in all : Cardinality(Positions(st)) = 1
        /\ Len(trace) = Cardinality(all)
        /\ \A i \in DOMAIN trace :
              \A p \in Prereqs(kind, trace[i].stage) :
                 \E j \in 1..(i - 1) : trace[j].stage = p
        /\ kind = "build" => Before("fetch", "setup")
        /\ kind = "repo_replace" => Before("add_data", "_notify_repo_remove")

C1_Witness ==
    /\ TerminalRunDone
    /\ kind = "build"
    /\ Len(trace) = 10

\* C2: if a stage of the chain of a run call returns a falsy result, the
\* call returns false and no stage that depends, directly or transitively,
\* on the failing stage executes during that call, the requested stage
\* included.
C2_FalsyAborts ==
    \A k \in DOMAIN trace :
       trace[k].ret = "False" =>
          /\ call.result = "False"
          /\ pc = "idle"
          /\ \A j \in DOMAIN trace :
                trace[j].stage \notin Dependents(kind, trace[k].stage)
          /\ Positions(trace[k].stage) = {k}
          /\ call.target # trace[k].stage => Positions(call.target) = {}

C2_Witness ==
    /\ kind = "repo_replace"
    /\ call.target = "finish"
    /\ Len(trace) = 3
    /\ trace[3].stage = "remove_data"
    /\ trace[3].ret = "False"
    /\ call.result = "False"

\* C3: with a non-null observer every invocation of a stage produces exactly
\* one phase_start followed by exactly one phase_end, whether the stage
\* returns truthy, returns falsy or raises; the status of phase_end is the
\* stage's return value, or false when it raised.
C3_ObserverPairs ==
    observer # "none" =>
        /\ Len(events) = 2 * Len(trace)
        /\ \A k \in DOMAIN trace :
              /\ events[2 * k - 1] =
                    [type |-> "phase_start", phase |-> trace[k].stage,
                     status |-> None]
              /\ events[2 * k].type = "phase_end"
              /\ events[2 * k].phase = trace[k].stage
              /\ events[2 * k].status =
                    (IF trace[k].ret = "raise" THEN "False"
                     ELSE trace[k].ret)

C3_Witness ==
    /\ observer = "obs"
    /\ Len(trace) = 3
    /\ trace[1].ret = "True"
    /\ trace[3].ret = "raise"
    /\ Len(events) = 6

\* C4: in a repository install the write lock is acquired (in start) before
\* add_data runs, is released (in finish) only after _notify_repo_add has
\* run, and is held all through add_data, finalize_data and
\* _notify_repo_add.
C4_InstallLockHeld ==
    kind = "repo_install" =>
        /\ execCount["add_data"] > 0 =>
              /\ lockLog # <<>>
              /\ lockLog[1] = "acquire_write_lock"
        /\ (\E i \in DOMAIN lockLog : lockLog[i] = "release_write_lock") =>
              /\ "_notify_repo_add" \in completed
              /\ execCount["_notify_repo_add"] > 0
        /\ hasLock =>
              /\ \A k \in DOMAIN trace :
                    trace[k].stage \in
                       {"add_data", "finalize_data", "_notify_repo_add"}
                    => trace[k].held
              /\ ("start" \in completed /\ "finish" \notin completed)
                    => lockHeld

C4_Witness ==
    /\ kind = "repo_install"
    /\ hasLock
    /\ TerminalRunDone
    /\ lockLog = <<"acquire_write_lock", "release_write_lock">>
    /\ ~lockHeld
    /\ Len(trace) = 5

\* C5: in a repository install, notify_add_package receives the operation's
\* current package: the mutated one when add_data or finalize_data replaced
\* it through _update_pkg_contents, the one passed to the constructor when
\* they did not.
C5_NotifyGetsMutatedPkg ==
    kind = "repo_install" =>
        \A k \in DOMAIN notified :
           /\ notified[k].what = "notify_add_package"
           /\ notified[k].pkg = new_pkg
           /\ (notified[k].pkg = OrigNewPkg) <=> (new_pkg.contents = <<>>)

C5_Witness ==
    /\ kind = "repo_install"
    /\ notified # <<>>
    /\ notified[1].pkg.contents # <<>>
    /\ notified[1].pkg # OrigNewPkg

\* the filename of the i-th fetchable, and the calls of the fetch capability
\* the last fetch invocation made for it
FilenameOf(i) == fetchables[i].filename
FetcherCallsFor(i) ==
    {k \in DOMAIN lastFetch.log : lastFetch.log[k].idx = i}

\* C6: the fetch stage does not invoke the fetch capability for a fetchable
\* whose filename is the filename of an entry of the fetch record, nor for
\* one whose filename was obtained earlier in the same invocation; it
\* invokes the capability exactly once for each other fetchable it reaches.
C6_NoRefetchOfRecorded ==
    lastFetch.n > 0 =>
        /\ \A k \in DOMAIN lastFetch.log :
              /\ FilenameOf(lastFetch.log[k].idx) \notin lastFetch.pre
              /\ \A j \in 1..(k - 1) :
                    lastFetch.log[j].fp # None =>
                       FilenameOf(lastFetch.log[j].idx)
                          # FilenameOf(lastFetch.log[k].idx)
        /\ \A i \in 1..lastFetch.reached :
              Cardinality(FetcherCallsFor(i)) =
                 (IF \/ FilenameOf(i) \in lastFetch.pre
                     \/ \E j \in 1..(i - 1) : FilenameOf(j) = FilenameOf(i)
                  THEN 0 ELSE 1)

C6_Witness ==
    /\ lastFetch.n = 2
    /\ lastFetch.pre # {}
    /\ Len(fetchables) = 2
    /\ lastFetch.reached = 2
    /\ FetcherCallsFor(1) = {}
    /\ FetcherCallsFor(2) # {}

\* C7: when the fetch capability returns none for a fetchable with a uri the
\* fetch stage returns false without invoking the no-fetch hook; for one
\* without a uri the hook is invoked exactly once and the stage returns
\* false; the stage returns true only when the capability returned a path
\* every time it was invoked.
C7_FetchFailure ==
    lastFetch.n > 0 =>
        /\ \A k \in DOMAIN lastFetch.log :
              lastFetch.log[k].fp = None =>
                 /\ lastFetch.ret = "False"
                 /\ k = Len(lastFetch.log)
                 /\ lastFetch.nofetch =
                       (IF fetchables[lastFetch.log[k].idx].uri THEN 0 ELSE 1)
        /\ lastFetch.ret = "True" =>
              /\ \A k \in DOMAIN lastFetch.log : lastFetch.log[k].fp # None
              /\ lastFetch.nofetch = 0
        /\ lastFetch.ret \in {"True", "False"}

C7_Witness ==
    /\ lastFetch.ret = "False"
    /\ Len(lastFetch.log) = 2
    /\ fetchables[2].uri
    /\ lastFetch.nofetch = 0
    /\ ~fetchables[1].uri

MutatingCommands == {"install", "uninstall", "replace"}

\* C8: a registry constructed without overrides for a frozen repository has
\* none of install, uninstall, replace in supports(), and supports(name) is
\* false for each of the three.
C8_FrozenDisablesMutators ==
    (/\ reg.state = "built"
     /\ reg.repo.frozen
     /\ reg.enable_overrides = {}
     /\ reg.disable_overrides = {}) =>
        /\ supports(reg, None, FALSE) \cap MutatingCommands = {}
        /\ \A n \in MutatingCommands : ~supports(reg, n, FALSE)

C8_Witness ==
    /\ reg.state = "built"
    /\ reg.repo.frozen
    /\ reg.enable_overrides = {}
    /\ reg.disable_overrides = {}
    /\ "install" \in reg.cmds
    /\ supports(reg, None, FALSE) = {"sync", "configure"}

\* C9: a command whose support predicate returns false is still in the
\* enabled set, and bound to its handler, when it is in the enable-override
\* set and not in the disable-override set.
C9_EnableOverrideWins ==
    reg.state = "built" =>
        \A c \in reg.enable_overrides \ reg.disable_overrides :
           ~check_support(reg.repo, c) =>
              /\ c \in reg.enabled_ops
              /\ c \in supports(reg, None, FALSE)
              /\ c \in DOMAIN reg.attrs
              /\ reg.attrs[c] = <<"_cmd_enabled_", c>>

C9_Witness ==
    /\ reg.state = "built"
    /\ reg.repo.frozen
    /\ reg.enable_overrides = {"install"}
    /\ reg.disable_overrides = {"sync"}
    /\ "install" \in reg.enabled_ops

\* C10: the build-side replace's edge table is preinst on start, prerm on
\* preinst, postrm on prerm, postinst on postrm, finalize on postinst, so
\* running finalize on a fresh instance executes start, preinst, prerm,
\* postrm, postinst, finalize in that order.
C10_ReplaceOrder ==
    kind = "replace" =>
        /\ DOMAIN stage_depends(kind) =
              {"preinst", "prerm", "postrm", "postinst", "finalize"}
        /\ stage_depends(kind)["preinst"] = <<"start">>
        /\ stage_depends(kind)["prerm"] = <<"preinst">>
        /\ stage_depends(kind)["postrm"] = <<"prerm">>
        /\ stage_depends(kind)["postinst"] = <<"postrm">>
        /\ stage_depends(kind)["finalize"] = <<"postinst">>
        /\ TerminalRunDone =>
              TraceStages = <<"start", "preinst", "prerm", "postrm",
                              "postinst", "finalize">>

C10_Witness ==
    /\ kind = "replace"
    /\ TerminalRunDone
    /\ Len(trace) = 6
    /\ trace[6].stage = "finalize"

\* C11 as stated: over any sequence of run calls on one instance no stage
\* body is executed more than once.
C11_NoBodyTwice ==
    \A st \in Stages(kind) : execCount[st] <= 1

\* C11 (amended): a stage whose body returned a truthy result is in the
\* completed set and its body is never executed again on that instance; a
\* stage whose body returned falsy or raised is executed again by a later
\* run call.
C11_CompletedNeverRerun ==
    [][\A st \in Stages(kind) :
          st \in completed => execCount'[st] = execCount[st]]_vars

C11_Witness ==
    /\ kind = "install"
    /\ calls = 2
    /\ pc = "idle"
    /\ call.target = "preinst"
    /\ call.result = "True"
    /\ completed = {"start", "preinst"}
    /\ execCount["start"] = 1
    /\ execCount["preinst"] = 1
    /\ Len(trace) = 1
    /\ trace[1].stage = "preinst"

\* C12: whenever a run('finish') call of a repository operation that
\* acquired the write lock returns false or raises because an intermediate
\* stage failed, the write lock is no longer held when the call ends.
C12_LockReleasedOnExit ==
    (/\ kind \in RepoKinds
     /\ hasLock
     /\ pc = "idle"
     /\ call.target = "finish"
     /\ Positions("start") # {}
     /\ call.result \in {"False", "raised"}) => ~lockHeld

NotifiedAt(what) == {k \in DOMAIN notified : notified[k].what = what}

\* C15: in a repository replace, notify_remove_package (for the old package)
\* is called before finalize_data runs and notify_add_package (for the new
\* package) only after finalize_data has completed; add_data and remove_data
\* have both completed before finalize_data runs.
C15_ReplaceNotifyOrder ==
    kind = "repo_replace" =>
        /\ execCount["finalize_data"] > 0 =>
              /\ {"add_data", "remove_data", "_notify_repo_remove"}
                    \subseteq completed
              /\ NotifiedAt("notify_remove_package") # {}
        /\ \A k \in NotifiedAt("notify_add_package") :
              /\ "finalize_data" \in completed
              /\ notified[k].pkg.base = "newpkg"
              /\ \E j \in NotifiedAt("notify_remove_package") :
                    j < k /\ notified[j].pkg = OldPkg

C15_Witness ==
    /\ kind = "repo_replace"
    /\ TerminalRunDone
    /\ Len(notified) = 2
    /\ notified[1].what = "notify_remove_package"
    /\ notified[2].what = "notify_add_package"

\* the ancestors of every stage of every graph
AncestorsOf == [k \in Kinds |-> [st \in Stages(k) |-> Ancestors(k, st)]]

\* no stage of graph k is its own ancestor
Acyclic == [k \in Kinds |-> \A st \in Stages(k) : st \notin AncestorsOf[k][st]]

\* every stage of graph k but start and fetch has start as an ancestor
StartAboveAllButFetch ==
    [k \in Kinds |-> \A st \in Stages(k) \ {"start", "fetch"} :
                        "start" \in AncestorsOf[k][st]]

\* C20 as stated: every stage of every operation has 'start' as an ancestor,
\* so in any run on a fresh instance 'start' is the first stage body
\* executed.
C20_StartIsRoot ==
    (calls = 1 /\ trace # <<>>) =>
        /\ \A st \in Stages(kind) \ {"start"} : "start" \in Ancestors(kind, st)
        /\ trace[1].stage = "start"

\* C20 (amended): every declared stage graph is acyclic; in every graph but
\* the fetch-only one, which has no 'start' stage, every stage other than
\* 'fetch' has 'start' as an ancestor and runs only once 'start' has
\* completed; build's 'fetch' has no prerequisite and is the first body
\* executed when a run reaches it, before 'start'.
C20_StartRootButFetch ==
    /\ Acyclic[kind]
    /\ kind # "fetch" =>
          /\ StartAboveAllButFetch[kind]
          /\ \A k \in DOMAIN trace :
                trace[k].stage \notin {"start", "fetch"} =>
                   "start" \in completed
          /\ (calls = 1 /\ trace # <<>>) =>
                trace[1].stage =
                   (IF /\ kind = "build"
                       /\ "fetch" \in AncestorsOf[kind][call.target]
                             \cup {call.target}
                    THEN "fetch" ELSE "start")
    /\ kind = "fetch" =>
          /\ "start" \notin Stages(kind)
          /\ trace # <<>> => trace[1].stage \in {"fetch", "finalize"}

C20_Witness ==
    /\ kind = "build"
    /\ calls = 1
    /\ call.target = "finalize"
    /\ Len(trace) >= 3
    /\ trace[1].stage = "fetch"
    /\ trace[2].stage = "start"
    /\ trace[3].stage = "setup"

\* C16: for every name n, supports(n) with raw false is true exactly when n
\* is a member of the enabled set returned by supports(); a name that is not
\* an enabled command is reported as unsupported.
C16_SupportsNameIffEnabled ==
    reg.state = "built" =>
        \A n \in Names :
           supports(reg, n, FALSE) <=> n \in supports(reg, None, FALSE)

\* C17: once a registry is constructed, changing the repository's frozen
\* flag or its syncer state changes neither the set returned by supports()
\* nor the answer of supports(name) for any command.
C17_EnabledSetFixed ==
    [][reg.state = "built" =>
          /\ supports(reg, None, FALSE)' = supports(reg, None, FALSE)
          /\ \A n \in EnabledHandlers :
                supports(reg, n, FALSE)' = supports(reg, n, FALSE)]_vars

C17_Witness ==
    /\ reg.state = "built"
    /\ reg.enable_overrides = {}
    /\ reg.disable_overrides = {}
    /\ ~reg.repo.frozen
    /\ reg.repo.syncer = "enabled"
    /\ repo.frozen
    /\ repo.syncer = "none"
    /\ supports(reg, None, FALSE) =
          {"sync", "install", "uninstall", "replace"}
    /\ supports(reg, "install", FALSE)
    /\ supports(reg, "sync", FALSE)

\* C18 as stated: a command whose support predicate evaluated against the
\* proxy's own repository is false is not enabled on the proxy, even if the
\* wrapped repository's registry supports it.
C18_ProxyOwnFilter ==
    reg.state = "built" =>
        \A c \in EnabledHandlers \ reg.enable_overrides :
           ~check_support(reg.repo, c) =>
              /\ c \notin supports(reg, None, FALSE)
              /\ ~supports(reg, c, FALSE)

\* C18 (amended): the proxy forwards each command and each support
\* predicate to the wrapped repository's registry; a command the wrapped
\* class defines and no override names is enabled on the proxy exactly when
\* its predicate holds of the wrapped repository, whatever the proxying
\* repository's own frozen flag or syncer.
C18_ProxyWrappedFilter ==
    reg.state = "built" =>
        \A c \in reg.cmds \ (reg.enable_overrides \cup reg.disable_overrides) :
           /\ c \in supports(reg, None, FALSE)
                 <=> check_support(reg.repo.raw_repo, c)
           /\ supports(reg, c, FALSE)
                 <=> check_support(reg.repo.raw_repo, c)

C18_Witness ==
    /\ reg.state = "built"
    /\ reg.enable_overrides = {}
    /\ reg.disable_overrides = {}
    /\ reg.repo.frozen
    /\ ~reg.repo.raw_repo.frozen
    /\ reg.repo.syncer = "none"
    /\ reg.repo.raw_repo.syncer = "enabled"
    /\ supports(reg, None, FALSE) =
          {"sync", "install", "uninstall", "replace"}
    /\ supports(reg, "install", FALSE)

\* writer i is between the completion of its start stage and the
\* completion of its finish stage
InCritical(i) == "start" \in completed[i] /\ "finish" \notin completed[i]

\* C13 as stated: for any two repository-mutating operation instances bound
\* to the same repository and run in any interleaving, at most one is
\* between the completion of its start and the completion of its finish.
C13_WritersSerialized ==
    ~(InCritical(1) /\ InCritical(2))

\* C13 (amended): when the repository exposes a lock, at most one of two
\* operation instances bound to it is between the completion of its start
\* and the completion of its finish, the lock is held throughout, and a
\* stage of the other never runs in between; with no lock on the
\* repository the no-op fake lock serializes nothing.
C13_RealLockSerializes ==
    hasLock =>
        /\ ~(InCritical(1) /\ InCritical(2))
        /\ \A i \in Writers :
              /\ InCritical(i) => lockHeld
              /\ completed[i] \ {"finish"} # {} => "start" \in completed[i]
        /\ \A i, j \in Writers :
              (i # j /\ InCritical(i)) =>
                  completed[j] \in {{}, Stages(kind[j])}

C13_Witness ==
    /\ hasLock
    /\ InCritical(1)
    /\ "add_data" \in completed[1]
    /\ pc[1] = "running"
    /\ pc[2] = "running"
    /\ queue[2] # <<>>
    /\ Head(queue[2]) = "start"
    /\ completed[2] = {}
    /\ lockHeld

\* C21: no rollback on failure: no stage is ever removed from the completed
\* set; a stage enters it exactly when its body has just returned a truthy
\* result, so a stage F whose body failed is not in it; a body is executed
\* only for a stage not in the completed set, so a later run call executes
\* F again and re-executes nothing already completed.
C21_NoRollback ==
    [][/\ completed \subseteq completed'
       /\ \A st \in Stages(kind) :
             /\ execCount'[st] # execCount[st] =>
                   /\ st \notin completed
                   /\ execCount'[st] = execCount[st] + 1
                   /\ Len(trace') = Len(trace) + 1
                   /\ trace'[Len(trace')].stage = st
                   /\ st \in completed' <=> Truthy(trace'[Len(trace')].ret)
             /\ (st \in completed' /\ st \notin completed) =>
                   execCount'[st] # execCount[st]]_vars

C21_Witness ==
    /\ kind = "install"
    /\ calls = 2
    /\ pc = "idle"
    /\ call = [target |-> "finalize", result |-> "True"]
    /\ completed = Stages(kind)
    /\ execCount["start"] = 1
    /\ execCount["preinst"] = 2
    /\ execCount["postinst"] = 1
    /\ execCount["finalize"] = 1
    /\ Len(trace) = 3
    /\ trace[1].stage = "preinst"

\* C22: when a run call of a repository operation ends false or raised
\* with start completed, the underway flag is still true, the last lock
\* call is the acquire and a real lock is still held; the lock is released
\* and the flag cleared only by a step that executes finish.
C22_FailureLeavesLockHeld ==
    [][/\ (/\ pc' = "idle"
           /\ call'.result \in {"False", "raised"}
           /\ "start" \in completed') =>
              /\ underway'
              /\ hasLock => lockHeld'
              /\ lockLog' = <<"acquire_write_lock">>
       /\ ((lockHeld /\ ~lockHeld') \/ (underway /\ ~underway')) =>
              /\ execCount'["finish"] = execCount["finish"] + 1
              /\ "finish" \in completed']_vars

C22_Witness ==
    /\ kind = "repo_install"
    /\ hasLock
    /\ calls = 1
    /\ pc = "idle"
    /\ call = [target |-> "finish", result |-> "raised"]
    /\ completed = {"start"}
    /\ Len(trace) = 2
    /\ trace[2] = [stage |-> "add_data", ret |-> "raise", held |-> TRUE]
    /\ lockHeld
    /\ underway

\* C24: a successful first run of finish on a repository uninstall executes
\* start, remove_data, finalize_data, _notify_repo_remove, finish in that
\* order; a real lock is held from the end of start until finish releases
\* it; notify_remove_package is called exactly once, with the old package.
C24_UninstallMirrorsInstall ==
    (kind = "repo_uninstall" /\ TerminalRunDone) =>
        /\ TraceStages = <<"start", "remove_data", "finalize_data",
                           "_notify_repo_remove", "finish">>
        /\ lockLog = <<"acquire_write_lock", "release_write_lock">>
        /\ hasLock =>
              /\ ~trace[1].held
              /\ \A k \in 2..5 : trace[k].held
              /\ ~lockHeld
        /\ ~underway
        /\ notified = <<_notify_repo_remove(OldPkg)>>

C24_Witness ==
    /\ kind = "repo_uninstall"
    /\ hasLock
    /\ TerminalRunDone
    /\ Len(trace) = 5
    /\ Len(notified) = 1
    /\ notified[1].pkg = OldPkg

\* C25: over any sequence of run calls on one repository operation
\* instance, repeated runs after failures included, the lock's acquire is
\* called at most once and its release at most once, and the release never
\* comes before the acquire.
C25_AcquireReleaseOnce ==
    kind \in RepoKinds =>
        /\ lockLog \in {<<>>, <<"acquire_write_lock">>,
                        <<"acquire_write_lock", "release_write_lock">>}
        /\ Len(lockLog) = execCount["start"] + execCount["finish"]
        /\ execCount["start"] <= 1
        /\ execCount["finish"] <= 1

C25_Witness ==
    /\ kind = "repo_install"
    /\ calls = 2
    /\ pc = "idle"
    /\ execCount["add_data"] = 2
    /\ execCount["start"] = 1
    /\ call = [target |-> "finish", result |-> "True"]
    /\ lockLog = <<"acquire_write_lock", "release_write_lock">>

\* C23: over any sequence of fetch invocations on one instance, retries
\* after a failed fetch included, the fetch capability is never invoked for
\* a fetchable whose filename it has already returned a path for, whatever
\* paths it returns.
C23_ObtainedNeverRefetched ==
    lastFetch.n > 0 =>
        \A k \in DOMAIN lastFetch.log :
           FilenameOf(lastFetch.log[k].idx) \notin lastFetch.got

\* the notifications of the current run alternate start, end, each end
\* for the phase of the start before it
Sequential ==
    /\ Len(events) % 2 = 0
    /\ \A i \in DOMAIN events :
          IF i % 2 = 1
          THEN events[i].type = "phase_start"
          ELSE /\ events[i].type = "phase_end"
               /\ events[i].phase = events[i - 1].phase

\* C26: the notifications of one run are sequential and never nested:
\* every phase_start is followed at once by the phase_end of the same
\* stage, before the phase_start of the next executed stage; the sequence
\* of phase_start events is the execution order of the stage bodies; a
\* step that executes no body, such as skipping a completed stage, delivers
\* no notification.
C26_SequentialNotifications ==
    [][/\ Sequential'
       /\ observer # "none" =>
             [k \in DOMAIN trace' |-> events'[2 * k - 1].phase] = TraceStages'
       /\ observer = "none" => events' = <<>>
       /\ trace' = trace => events' = events
       /\ Len(trace') = Len(trace) + 1 =>
             /\ Len(events') = Len(events)
                   + (IF observer = "none" THEN 0 ELSE 2)
             /\ \A i \in DOMAIN events : events'[i] = events[i]]_vars

C26_Witness ==
    /\ kind = "install"
    /\ observer = "obs"
    /\ calls = 2
    /\ pc = "idle"
    /\ call = [target |-> "postinst", result |-> "True"]
    /\ execCount["start"] = 1
    /\ TraceStages = <<"preinst", "postinst">>
    /\ Len(events) = 4
    /\ events[3].phase = "postinst"

\* C27: a command named in both the enable-override and the
\* disable-override set of the constructor is not enabled; the enabled set
\* is the support-filtered candidate commands, plus the enable overrides,
\* minus the disable overrides.
C27_DisableBeatsEnable ==
    reg.state = "built" =>
        /\ \A c \in reg.enable_overrides \cap reg.disable_overrides :
              /\ c \notin supports(reg, None, FALSE)
              /\ c \notin DOMAIN reg.attrs
              /\ c \in EnabledHandlers => ~supports(reg, c, FALSE)
        /\ \A c \in Names :
              c \in supports(reg, None, FALSE) <=>
                 /\ c \notin reg.disable_overrides
                 /\ \/ c \in reg.enable_overrides
                    \/ c \in reg.cmds /\ check_support(reg.repo, c)

C27_Witness ==
    /\ reg.state = "built"
    /\ reg.enable_overrides = {"install"}
    /\ reg.disable_overrides = {"install"}
    /\ "install" \in reg.cmds
    /\ ~reg.repo.frozen
    /\ "install" \notin supports(reg, None, FALSE)
    /\ "uninstall" \in supports(reg, None, FALSE)

\* C28: the raw views of the registry agree: for every name n,
\* supports(n, raw) is true exactly when n is a member of supports(raw);
\* and with no enable overrides every member of the enabled set supports()
\* is a member of supports(raw).
C28_RawViewsAgree ==
    reg.state = "built" =>
        /\ \A n \in Names :
              supports(reg, n, TRUE) <=> n \in supports(reg, None, TRUE)
        /\ reg.enable_overrides = {} =>
              supports(reg, None, FALSE) \subseteq supports(reg, None, TRUE)

====
